---------------------------- MODULE Spec2Model ----------------------------
(***************************************************************************)
(* Model of the buffered, interrupt-driven USART driver UartClass          *)
(* (cores/arduino/UART.cpp) and of the interrupt vectors that bind it to a *)
(* port (cores/arduino/UART2.cpp).                                         *)
(*                                                                         *)
(* One mainline caller runs the public methods; every ATOMIC_BLOCK and     *)
(* every interrupt service routine is one step (interrupts are globally    *)
(* suppressed inside them), and the statements outside atomic blocks are   *)
(* separate steps between which the two interrupt vectors and the USART    *)
(* hardware may act.  The USART is modelled by its transmit data register, *)
(* its transmit shift register, its receive data register and the status   *)
(* and control bits that the driver reads and writes.                      *)
(***************************************************************************)
EXTENDS Integers, Sequences, FiniteSets

(***************************************************************************)
(* Bounds of the model.                                                    *)
(***************************************************************************)
\* number of slots of the TX ring buffer (usable capacity is one less)
SERIAL_TX_BUFFER_SIZE == 3
\* number of slots of the RX ring buffer (usable capacity is one less)
SERIAL_RX_BUFFER_SIZE == 3
\* bytes the caller passes to write()
TxBytes == {0, 1}
\* bytes the line delivers to the receiver
RxBytes == {0, 1}
\* the byte used where a claim does not depend on the values transferred; it
\* differs from the initial contents of the buffers, so a store into a slot
\* not yet used is a change of state
AnyByte == {1}
\* baud rates passed to begin()
Bauds == {300, 1200, 9600, 57600, 115200, 1000000}
\* clock frequencies the core is built for (F_CPU is set by the build)
ClockFreqs == {16000000, 20000000}
\* values of the signed 8-bit oscillator error in the signature row
Trims == {-128, -1, 0, 1, 127}
\* the baud rate, clock and oscillator error used where a claim does not
\* depend on the baud register
AnyBaud == {9600}
AnyClock == {16000000}
AnyTrim == {0}

VARIABLES
    pc,             \* position of the mainline caller
    stack,          \* return positions of the calls in progress
    c,              \* argument of the write() in progress
    ret,            \* << v >> once the last call returned v, << >> before that
    SREG_I,         \* global interrupt enable bit of the caller's context
    written,        \* UartClass::_written
    tx_buffer,      \* UartClass::_tx_buffer
    tx_head,        \* UartClass::_tx_buffer_head
    tx_tail,        \* UartClass::_tx_buffer_tail
    rx_buffer,      \* UartClass::_rx_buffer
    rx_head,        \* UartClass::_rx_buffer_head
    rx_tail,        \* UartClass::_rx_buffer_tail
    DREIE,          \* CTRLA: data register empty interrupt enable
    RXCIE,          \* CTRLA: receive complete interrupt enable
    RXEN,           \* CTRLB: receiver enable
    TXEN,           \* CTRLB: transmitter enable
    DREIF,          \* STATUS: the transmit data register TXDATAL is empty
    TXCIF,          \* STATUS: transmit complete
    RXCIF,          \* STATUS: unread byte in the receive data register
    RXDATAL,        \* receive data register
    shifting,       \* the transmit shift register holds a frame on the wire
    pending,        \* history: bytes passed to write(), not yet loaded into TXDATAL
    rxPending,      \* history: bytes the receive handler stored, not yet read or discarded
    peeked,         \* history: << c >> when peek() returned c and no read() or end() followed
    baud,           \* begin()'s argument baud while begin() runs, else 0
    BAUD,           \* the 16-bit USART baud register
    F_CPU,          \* the clock frequency the core was built for
    OSC16ERR5V,     \* SIGROW.OSC16ERR5V, the factory oscillator error
    fifoOK,         \* history: every load of TXDATAL was the oldest pending byte
    wroteSinceBegin,\* history: write() was called since the last begin()
    ended,          \* history: end() completed and begin() has not enabled the port since
    discarded,      \* history: that end() found unread bytes in the RX buffer
    blocked,        \* history: the write() in progress found the TX buffer full
    popped          \* history: a byte left the TX buffer since that write() found it full

vars == << pc, stack, c, ret, SREG_I, written, tx_buffer, tx_head, tx_tail,
           rx_buffer, rx_head, rx_tail, DREIE, RXCIE, RXEN, TXEN, DREIF, TXCIF,
           RXCIF, RXDATAL, shifting, pending, rxPending, peeked, fifoOK,
           wroteSinceBegin,
           ended, discarded, blocked, popped, baud, BAUD, F_CPU, OSC16ERR5V >>

\* the variables of the driver object and of the USART registers
progVars == << written, tx_buffer, tx_head, tx_tail, rx_buffer, rx_head, rx_tail,
               DREIE, RXCIE, RXEN, TXEN, DREIF, TXCIF, RXCIF, RXDATAL >>

txVars == << tx_buffer, tx_head, tx_tail, DREIE, DREIF, TXCIF >>
rxVars == << rx_buffer, rx_head, rx_tail, RXCIF, RXDATAL, rxPending >>
ctlVars == << RXCIE, RXEN, TXEN >>
histTx == << pending, fifoOK, popped >>
baudVars == << baud, BAUD, F_CPU, OSC16ERR5V >>

(***************************************************************************)
(* Ring buffer arithmetic.                                                 *)
(***************************************************************************)
TxNext(i) == (i + 1) % SERIAL_TX_BUFFER_SIZE
RxNext(i) == (i + 1) % SERIAL_RX_BUFFER_SIZE

\* number of bytes queued in the TX buffer
TxQueued == (SERIAL_TX_BUFFER_SIZE + tx_head - tx_tail) % SERIAL_TX_BUFFER_SIZE

\* live contents of the TX buffer, oldest first
TxContents == [ k \in 1 .. TxQueued |->
                  tx_buffer[(tx_tail + k - 1) % SERIAL_TX_BUFFER_SIZE] ]

\* live contents of the RX buffer, oldest first
RxContents ==
    [ k \in 1 .. ((SERIAL_RX_BUFFER_SIZE + rx_head - rx_tail) % SERIAL_RX_BUFFER_SIZE) |->
        rx_buffer[(rx_tail + k - 1) % SERIAL_RX_BUFFER_SIZE] ]

(***************************************************************************)
(* Initial state: the object as constructed (indices 0, _written false)    *)
(* and the USART after reset (everything disabled, data register empty).   *)
(***************************************************************************)
InitDriver ==
    /\ pc = "idle"
    /\ stack = << >>
    /\ c = 0
    /\ ret = << >>
    /\ SREG_I = TRUE
    /\ written = FALSE
    /\ tx_buffer = [ i \in 0 .. SERIAL_TX_BUFFER_SIZE - 1 |-> 0 ]
    /\ tx_head = 0
    /\ tx_tail = 0
    /\ rx_buffer = [ i \in 0 .. SERIAL_RX_BUFFER_SIZE - 1 |-> 0 ]
    /\ rx_head = 0
    /\ rx_tail = 0
    /\ DREIE = FALSE
    /\ RXCIE = FALSE
    /\ RXEN = FALSE
    /\ TXEN = FALSE
    /\ DREIF = TRUE
    /\ TXCIF = FALSE
    /\ RXCIF = FALSE
    /\ RXDATAL = 0
    /\ shifting = FALSE
    /\ pending = << >>
    /\ rxPending = << >>
    /\ peeked = << >>
    /\ fifoOK = TRUE
    /\ wroteSinceBegin = FALSE
    /\ ended = FALSE
    /\ discarded = FALSE
    /\ blocked = FALSE
    /\ popped = FALSE
    /\ baud = 0
    /\ BAUD = 0

Init ==
    /\ InitDriver
    /\ F_CPU \in AnyClock
    /\ OSC16ERR5V \in AnyTrim

\* the same, for every clock and every oscillator error of the bounded sets
InitBaud ==
    /\ InitDriver
    /\ F_CPU \in ClockFreqs
    /\ OSC16ERR5V \in Trims

(***************************************************************************)
(* Return from the call in progress to its caller.                         *)
(***************************************************************************)
Return ==
    IF stack = << >>
    THEN pc' = "idle" /\ stack' = stack
    ELSE pc' = Head(stack) /\ stack' = Tail(stack)

\* history of a byte b being stored into TXDATAL
Loaded(b) ==
    /\ fifoOK' = (fifoOK /\ pending # << >> /\ Head(pending) = b)
    /\ pending' = IF pending = << >> THEN pending ELSE Tail(pending)

\* a transmit handler that leaves the data register empty interrupt enabled
\* when it has emptied the TX buffer
tx_data_empty_irq_KeepsDreie ==
    LET b == tx_buffer[tx_tail]
        newtail == TxNext(tx_tail)
    IN  /\ tx_tail' = newtail
        /\ DREIF' = FALSE
        /\ TXCIF' = FALSE
        /\ DREIE' = DREIE
        /\ UNCHANGED << tx_buffer, tx_head >>
        /\ Loaded(b)
        /\ popped' = blocked

(***************************************************************************)
(* UartClass::_tx_data_empty_irq: pop one byte from the TX buffer into the *)
(* transmit data register, clear the transmit complete flag, and disable   *)
(* the data register empty interrupt when the buffer became empty.         *)
(***************************************************************************)
tx_data_empty_irq ==
    LET b == tx_buffer[tx_tail]
        newtail == TxNext(tx_tail)
    IN  /\ tx_tail' = newtail
        /\ DREIF' = FALSE
        /\ TXCIF' = FALSE
        /\ DREIE' = IF tx_head = newtail THEN FALSE ELSE DREIE
        /\ UNCHANGED << tx_buffer, tx_head >>
        /\ Loaded(b)
        /\ popped' = blocked

\* a poll that never runs the handler
poll_tx_data_empty_Never == UNCHANGED << txVars, histTx >>

\* a poll that tests the data register empty flag only, not the interrupt
\* enable that tells the TX buffer is non-empty
poll_tx_data_empty_NoDreieTest ==
    IF DREIF
    THEN tx_data_empty_irq
    ELSE UNCHANGED << txVars, histTx >>

(***************************************************************************)
(* UartClass::_poll_tx_data_empty: inside one atomic block, run the        *)
(* handler only if the data register empty interrupt is enabled and the    *)
(* data register is empty.                                                 *)
(***************************************************************************)
poll_tx_data_empty ==
    IF DREIE /\ DREIF
    THEN tx_data_empty_irq
    ELSE UNCHANGED << txVars, histTx >>

(***************************************************************************)
(* Interrupt vectors of the port (UART2.cpp).  A vector is taken between   *)
(* two mainline steps when interrupts are globally enabled, its interrupt  *)
(* is enabled in CTRLA and its flag is set in STATUS.                      *)
(***************************************************************************)
ISR_DRE ==
    /\ SREG_I
    /\ DREIE
    /\ DREIF
    /\ tx_data_empty_irq
    /\ UNCHANGED << pc, stack, c, ret, SREG_I, written, rxVars, ctlVars, shifting,
                    wroteSinceBegin, ended, discarded, blocked >>
    /\ UNCHANGED << peeked, baudVars >>

\* a receive handler that stores the byte even when the RX buffer is full
rx_complete_irq_Overwrites ==
    LET b == RXDATAL
        i == RxNext(rx_head)
    IN  /\ RXCIF' = FALSE
        /\ rx_buffer' = [ rx_buffer EXCEPT ![rx_head] = b ]
        /\ rx_head' = i
        /\ rxPending' = IF i # rx_tail THEN Append(rxPending, b) ELSE rxPending
        /\ RXDATAL' = 0
        /\ UNCHANGED rx_tail

\* UartClass::_rx_complete_irq: read the received byte; store it unless the
\* RX buffer is full
rx_complete_irq ==
    LET b == RXDATAL
        i == RxNext(rx_head)
    IN  /\ RXCIF' = FALSE
        /\ IF i # rx_tail
           THEN /\ rx_buffer' = [ rx_buffer EXCEPT ![rx_head] = b ]
                /\ rx_head' = i
                /\ rxPending' = Append(rxPending, b)
           ELSE UNCHANGED << rx_buffer, rx_head, rxPending >>
        /\ RXDATAL' = 0
        /\ UNCHANGED rx_tail

ISR_RXC ==
    /\ SREG_I
    /\ RXCIE
    /\ RXCIF
    /\ rx_complete_irq
    /\ UNCHANGED << pc, stack, c, ret, SREG_I, written, txVars, ctlVars, shifting,
                    histTx, wroteSinceBegin, ended, discarded, blocked >>
    /\ UNCHANGED << peeked, baudVars >>

(***************************************************************************)
(* UartClass::write.                                                       *)
(***************************************************************************)
write_call(b) ==
    /\ pc = "idle"
    /\ c' = b
    /\ pending' = Append(pending, b)
    /\ pc' = "w_try"
    /\ wroteSinceBegin' = TRUE
    /\ blocked' = FALSE
    /\ popped' = FALSE
    /\ ret' = << >>
    /\ UNCHANGED << stack, SREG_I, progVars, rxPending, peeked, shifting, fifoOK, ended,
                    discarded, baudVars >>

\* write(b) for the bytes whose order is observed
CallWrite == \E b \in TxBytes : write_call(b)

\* write(b) where the value written does not matter
CallWriteAny == \E b \in AnyByte : write_call(b)

\* write()'s atomic block with a fast path that tests only the data register
\* empty flag, not the interrupt enable that tells the TX buffer is non-empty
WriteTry_FastPathIgnoresQueue ==
    /\ pc = "w_try"
    /\ IF DREIF
       THEN /\ DREIF' = FALSE
            /\ TXCIF' = FALSE
            /\ written' = TRUE
            /\ Loaded(c)
            /\ ret' = << 1 >>
            /\ Return
            /\ c' = 0 /\ blocked' = FALSE /\ popped' = FALSE
            /\ UNCHANGED << tx_buffer, tx_head, tx_tail, DREIE >>
       ELSE IF TxNext(tx_head) # tx_tail
       THEN /\ tx_buffer' = [ tx_buffer EXCEPT ![tx_head] = c ]
            /\ tx_head' = TxNext(tx_head)
            /\ DREIE' = TRUE
            /\ ret' = << 1 >>
            /\ Return
            /\ c' = 0 /\ blocked' = FALSE /\ popped' = FALSE
            /\ UNCHANGED << tx_tail, DREIF, TXCIF, written, pending, fifoOK >>
       ELSE /\ pc' = "w_poll"
            /\ blocked' = TRUE
            /\ UNCHANGED << stack, c, ret, txVars, written, histTx >>
    /\ UNCHANGED << SREG_I, rxVars, ctlVars, shifting, wroteSinceBegin, ended, discarded >>
    /\ UNCHANGED << peeked, baudVars >>

\* write()'s atomic block storing the byte even when the TX buffer is full
WriteTry_OverwritesWhenFull ==
    /\ pc = "w_try"
    /\ IF ~DREIE /\ DREIF
       THEN /\ DREIF' = FALSE
            /\ TXCIF' = FALSE
            /\ written' = TRUE
            /\ Loaded(c)
            /\ ret' = << 1 >>
            /\ Return
            /\ c' = 0 /\ blocked' = FALSE /\ popped' = FALSE
            /\ UNCHANGED << tx_buffer, tx_head, tx_tail, DREIE >>
       ELSE /\ tx_buffer' = [ tx_buffer EXCEPT ![tx_head] = c ]
            /\ tx_head' = TxNext(tx_head)
            /\ DREIE' = TRUE
            /\ ret' = << 1 >>
            /\ Return
            /\ c' = 0 /\ blocked' = FALSE /\ popped' = FALSE
            /\ UNCHANGED << tx_tail, DREIF, TXCIF, written, pending, fifoOK >>
    /\ UNCHANGED << SREG_I, rxVars, ctlVars, shifting, wroteSinceBegin, ended, discarded >>
    /\ UNCHANGED << peeked, baudVars >>

\* write()'s atomic block storing the byte into the free slot of a full TX
\* buffer before it polls
WriteTry_StoresWhenFull ==
    /\ pc = "w_try"
    /\ IF ~DREIE /\ DREIF
       THEN /\ DREIF' = FALSE
            /\ TXCIF' = FALSE
            /\ written' = TRUE
            /\ Loaded(c)
            /\ ret' = << 1 >>
            /\ Return
            /\ c' = 0 /\ blocked' = FALSE /\ popped' = FALSE
            /\ UNCHANGED << tx_buffer, tx_head, tx_tail, DREIE >>
       ELSE IF TxNext(tx_head) # tx_tail
       THEN /\ tx_buffer' = [ tx_buffer EXCEPT ![tx_head] = c ]
            /\ tx_head' = TxNext(tx_head)
            /\ DREIE' = TRUE
            /\ ret' = << 1 >>
            /\ Return
            /\ c' = 0 /\ blocked' = FALSE /\ popped' = FALSE
            /\ UNCHANGED << tx_tail, DREIF, TXCIF, written, pending, fifoOK >>
       ELSE /\ pc' = "w_poll"
            /\ blocked' = TRUE
            /\ tx_buffer' = [ tx_buffer EXCEPT ![tx_head] = c ]
            /\ UNCHANGED << stack, c, ret, tx_head, tx_tail, DREIE, DREIF, TXCIF, written,
                            histTx >>
    /\ UNCHANGED << SREG_I, rxVars, ctlVars, shifting, wroteSinceBegin, ended, discarded >>
    /\ UNCHANGED << peeked, baudVars >>

\* the atomic block of one iteration of write()'s loop
WriteTry ==
    /\ pc = "w_try"
    /\ IF ~DREIE /\ DREIF
       THEN \* fast path: straight into the data register
            /\ DREIF' = FALSE
            /\ TXCIF' = FALSE
            /\ written' = TRUE
            /\ Loaded(c)
            /\ ret' = << 1 >>
            /\ Return
            /\ c' = 0 /\ blocked' = FALSE /\ popped' = FALSE
            /\ UNCHANGED << tx_buffer, tx_head, tx_tail, DREIE >>
       ELSE IF TxNext(tx_head) # tx_tail
       THEN \* buffered path
            /\ tx_buffer' = [ tx_buffer EXCEPT ![tx_head] = c ]
            /\ tx_head' = TxNext(tx_head)
            /\ DREIE' = TRUE
            /\ ret' = << 1 >>
            /\ Return
            /\ c' = 0 /\ blocked' = FALSE /\ popped' = FALSE
            /\ UNCHANGED << tx_tail, DREIF, TXCIF, written, pending, fifoOK >>
       ELSE \* buffer full: leave the atomic block and poll
            /\ pc' = "w_poll"
            /\ blocked' = TRUE
            /\ UNCHANGED << stack, c, ret, txVars, written, histTx >>
    /\ UNCHANGED << SREG_I, rxVars, ctlVars, shifting, wroteSinceBegin, ended, discarded >>
    /\ UNCHANGED << peeked, baudVars >>

WritePoll ==
    /\ pc = "w_poll"
    /\ poll_tx_data_empty
    /\ pc' = "w_try"
    /\ UNCHANGED << stack, c, ret, SREG_I, written, rxVars, ctlVars, shifting,
                    wroteSinceBegin, ended, discarded, blocked >>
    /\ UNCHANGED << peeked, baudVars >>

(***************************************************************************)
(* UartClass::flush.                                                       *)
(***************************************************************************)
CallFlush ==
    /\ pc = "idle"
    /\ pc' = "f_chk"
    /\ ret' = << >>
    /\ UNCHANGED << stack, c, SREG_I, progVars, rxPending, shifting, histTx,
                    wroteSinceBegin, ended, discarded, blocked >>
    /\ UNCHANGED << peeked, baudVars >>

\* flush() without the test of _written
FlushCheck_NoTest ==
    /\ pc = "f_chk"
    /\ pc' = "f_dreie"
    /\ UNCHANGED << stack, c, ret, SREG_I, progVars, rxPending, shifting, histTx, wroteSinceBegin,
                    ended, discarded, blocked >>
    /\ UNCHANGED << peeked, baudVars >>

\* if (!_written) return;
FlushCheck ==
    /\ pc = "f_chk"
    /\ IF ~written
       THEN Return
       ELSE pc' = "f_dreie" /\ stack' = stack
    /\ UNCHANGED << c, ret, SREG_I, progVars, rxPending, shifting, histTx, wroteSinceBegin,
                    ended, discarded, blocked >>
    /\ UNCHANGED << peeked, baudVars >>

\* loop condition, first operand: CTRLA & USART_DREIE_bm
FlushTestDreie ==
    /\ pc = "f_dreie"
    /\ pc' = IF DREIE THEN "f_poll" ELSE "f_txcif"
    /\ UNCHANGED << stack, c, ret, SREG_I, progVars, rxPending, shifting, histTx,
                    wroteSinceBegin, ended, discarded, blocked >>
    /\ UNCHANGED << peeked, baudVars >>

\* flush() returning as soon as the data register empty interrupt is disabled
FlushTestTxcif_NoWait ==
    /\ pc = "f_txcif"
    /\ Return
    /\ UNCHANGED << c, ret, SREG_I, progVars, rxPending, shifting, histTx, wroteSinceBegin,
                    ended, discarded, blocked >>
    /\ UNCHANGED << peeked, baudVars >>

\* loop condition, second operand: !(STATUS & USART_TXCIF_bm)
FlushTestTxcif ==
    /\ pc = "f_txcif"
    /\ IF ~TXCIF
       THEN pc' = "f_poll" /\ stack' = stack
       ELSE Return
    /\ UNCHANGED << c, ret, SREG_I, progVars, rxPending, shifting, histTx, wroteSinceBegin,
                    ended, discarded, blocked >>
    /\ UNCHANGED << peeked, baudVars >>

\* flush() spinning without the poll
FlushPoll_NoPoll ==
    /\ pc = "f_poll"
    /\ pc' = "f_dreie"
    /\ UNCHANGED << stack, c, ret, SREG_I, progVars, rxPending, shifting, histTx, wroteSinceBegin,
                    ended, discarded, blocked >>
    /\ UNCHANGED << peeked, baudVars >>

FlushPoll ==
    /\ pc = "f_poll"
    /\ poll_tx_data_empty
    /\ pc' = "f_dreie"
    /\ UNCHANGED << stack, c, ret, SREG_I, written, rxVars, ctlVars, shifting,
                    wroteSinceBegin, ended, discarded, blocked >>
    /\ UNCHANGED << peeked, baudVars >>

(***************************************************************************)
(* UartClass::end.                                                         *)
(***************************************************************************)
CallEnd ==
    /\ pc = "idle"
    /\ pc' = "e_flush"
    /\ ret' = << >>
    /\ UNCHANGED << stack, c, SREG_I, progVars, rxPending, shifting, histTx,
                    wroteSinceBegin, ended, discarded, blocked >>
    /\ UNCHANGED << peeked, baudVars >>

\* end() without the call of flush()
EndFlush_NoFlush ==
    /\ pc = "e_flush"
    /\ pc' = "e_atomic"
    /\ UNCHANGED << stack, c, ret, SREG_I, progVars, rxPending, shifting, histTx, wroteSinceBegin,
                    ended, discarded, blocked >>
    /\ UNCHANGED << peeked, baudVars >>

\* flush();
EndFlush ==
    /\ pc = "e_flush"
    /\ pc' = "f_chk"
    /\ stack' = << "e_atomic" >> \o stack
    /\ UNCHANGED << c, ret, SREG_I, progVars, rxPending, shifting, histTx, wroteSinceBegin,
                    ended, discarded, blocked >>
    /\ UNCHANGED << peeked, baudVars >>

\* end() without the reset of the RX buffer
EndAtomic_KeepsRx ==
    /\ pc = "e_atomic"
    /\ RXEN' = FALSE
    /\ TXEN' = FALSE
    /\ RXCIE' = FALSE
    /\ DREIE' = FALSE
    /\ written' = FALSE
    /\ RXCIF' = FALSE
    /\ ended' = TRUE
    /\ discarded' = (rx_head # rx_tail)
    /\ rxPending' = << >>
    /\ Return
    /\ UNCHANGED << c, ret, SREG_I, tx_buffer, tx_head, tx_tail, rx_buffer, rx_head,
                    rx_tail, DREIF, TXCIF, RXDATAL, shifting, histTx,
                    wroteSinceBegin, blocked >>
    /\ peeked' = << >>
    /\ UNCHANGED baudVars

\* the atomic block of end(); clearing RXEN flushes the receive data register
EndAtomic ==
    /\ pc = "e_atomic"
    /\ RXEN' = FALSE
    /\ TXEN' = FALSE
    /\ RXCIE' = FALSE
    /\ DREIE' = FALSE
    /\ rx_head' = rx_tail
    /\ written' = FALSE
    /\ RXCIF' = FALSE
    /\ ended' = TRUE
    /\ discarded' = (rx_head # rx_tail)
    /\ rxPending' = << >>
    /\ Return
    /\ UNCHANGED << c, ret, SREG_I, tx_buffer, tx_head, tx_tail, rx_buffer, rx_tail,
                    DREIF, TXCIF, RXDATAL, shifting, histTx,
                    wroteSinceBegin, blocked >>
    /\ peeked' = << >>
    /\ UNCHANGED baudVars

(***************************************************************************)
(* UartClass::begin.                                                       *)
(***************************************************************************)
begin_call(b) ==
    /\ pc = "idle"
    /\ pc' = "b_chk"
    /\ baud' = b
    /\ ret' = << >>
    /\ UNCHANGED << stack, c, SREG_I, progVars, rxPending, shifting, histTx,
                    wroteSinceBegin, ended, discarded, blocked >>
    /\ UNCHANGED << peeked, BAUD, F_CPU, OSC16ERR5V >>

\* begin(baud, config) where the baud rate does not matter
CallBegin == \E b \in AnyBaud : begin_call(b)

\* begin(baud, config) for the baud rates whose divisor is observed
CallBeginBaud == \E b \in Bauds : begin_call(b)

\* C's integer division, which truncates toward zero
CDiv(a, b) == IF a >= 0 THEN a \div b ELSE -((-a) \div b)

\* the 32-bit baud_setting of begin(): the rounded divisor, corrected by
\* the oscillator error
baud_divisor == (((8 * F_CPU) \div baud) + 1) \div 2
baud_setting == baud_divisor + CDiv(baud_divisor * OSC16ERR5V, 1024)

\* (int16_t) x stored into the unsigned 16-bit register: the low 16 bits
ToReg16(x) == x % 65536

\* begin() without the implicit end()
BeginCheck_NoEnd ==
    /\ pc = "b_chk"
    /\ pc' = "b_atomic"
    /\ UNCHANGED << stack, c, ret, SREG_I, progVars, rxPending, shifting, histTx, wroteSinceBegin,
                    ended, discarded, blocked >>
    /\ UNCHANGED << peeked, baudVars >>

\* if (_written) { this->end(); ...
BeginCheck ==
    /\ pc = "b_chk"
    /\ IF written
       THEN pc' = "e_flush" /\ stack' = << "b_clr" >> \o stack
       ELSE pc' = "b_atomic" /\ stack' = stack
    /\ UNCHANGED << c, ret, SREG_I, progVars, rxPending, shifting, histTx, wroteSinceBegin,
                    ended, discarded, blocked >>
    /\ UNCHANGED << peeked, baudVars >>

\* ... _written = false; }
BeginClear ==
    /\ pc = "b_clr"
    /\ written' = FALSE
    /\ pc' = "b_atomic"
    /\ UNCHANGED << stack, c, ret, SREG_I, txVars, rxVars, ctlVars, shifting, histTx,
                    wroteSinceBegin, ended, discarded, blocked >>
    /\ UNCHANGED << peeked, baudVars >>

\* an atomic block of begin() that also resets the four buffer indices
BeginAtomic_ResetsIndices ==
    /\ pc = "b_atomic"
    /\ RXEN' = TRUE
    /\ TXEN' = TRUE
    /\ RXCIE' = TRUE
    /\ rx_head' = 0 /\ rx_tail' = 0
    /\ tx_head' = 0 /\ tx_tail' = 0
    /\ ended' = FALSE
    /\ discarded' = FALSE
    /\ wroteSinceBegin' = FALSE
    /\ Return
    /\ UNCHANGED << c, ret, SREG_I, written, tx_buffer, DREIE, DREIF, TXCIF, rx_buffer,
                    RXCIF, RXDATAL, rxPending, shifting, histTx, blocked >>
    /\ UNCHANGED << peeked, F_CPU, OSC16ERR5V >>
    /\ BAUD' = ToReg16(baud_setting)
    /\ baud' = 0

\* the atomic block of begin(): program the port mux, the pins, BAUD and
\* CTRLC (registers that no other method of the driver reads), enable the
\* receiver, the transmitter and the receive complete interrupt
BeginAtomic ==
    /\ pc = "b_atomic"
    /\ RXEN' = TRUE
    /\ TXEN' = TRUE
    /\ RXCIE' = TRUE
    /\ ended' = FALSE
    /\ discarded' = FALSE
    /\ wroteSinceBegin' = FALSE
    /\ Return
    /\ UNCHANGED << c, ret, SREG_I, written, txVars, rxVars, shifting, histTx,
                    blocked >>
    /\ UNCHANGED << peeked, F_CPU, OSC16ERR5V >>
    /\ BAUD' = ToReg16(baud_setting)
    /\ baud' = 0

(***************************************************************************)
(* Read side: UartClass::available, peek, read.                            *)
(***************************************************************************)
available == (SERIAL_RX_BUFFER_SIZE + rx_head - rx_tail) % SERIAL_RX_BUFFER_SIZE

peek == IF rx_head = rx_tail THEN -1 ELSE rx_buffer[rx_tail]

Available ==
    /\ pc = "idle"
    /\ ret' = << available >>
    /\ UNCHANGED << pc, stack, c, SREG_I, progVars, rxPending, shifting, histTx, wroteSinceBegin,
                    ended, discarded, blocked >>
    /\ UNCHANGED << peeked, baudVars >>

\* With a buffer of at most 256 bytes RX_BUFFER_ATOMIC is empty: peek() and
\* read() test the indices in one step and fetch the byte in a later one,
\* and the receive interrupt may run in between.  available() reads head
\* once, and tail is written by the caller only, so it is one step.
Peek ==
    /\ pc = "idle"
    /\ IF rx_head = rx_tail
       THEN ret' = << -1 >> /\ pc' = pc
       ELSE ret' = << >> /\ pc' = "p_take"
    /\ UNCHANGED << stack, c, SREG_I, progVars, rxPending, shifting, histTx, wroteSinceBegin,
                    ended, discarded, blocked >>
    /\ UNCHANGED << peeked, baudVars >>

\* peek() advancing the tail as read() does
PeekTake_Consumes ==
    /\ pc = "p_take"
    /\ ret' = << rx_buffer[rx_tail] >>
    /\ rx_tail' = RxNext(rx_tail)
    /\ pc' = "idle"
    /\ UNCHANGED << stack, c, SREG_I, written, txVars, rx_buffer, rx_head, RXCIF,
                    RXDATAL, ctlVars, rxPending, shifting, histTx, wroteSinceBegin, ended,
                    discarded, blocked >>
    /\ peeked' = ret'
    /\ UNCHANGED baudVars

PeekTake ==
    /\ pc = "p_take"
    /\ ret' = << rx_buffer[rx_tail] >>
    /\ pc' = "idle"
    /\ UNCHANGED << stack, c, SREG_I, progVars, rxPending, shifting, histTx, wroteSinceBegin,
                    ended, discarded, blocked >>
    /\ peeked' = ret'
    /\ UNCHANGED baudVars

Read ==
    /\ pc = "idle"
    /\ IF rx_head = rx_tail
       THEN ret' = << -1 >> /\ pc' = pc
       ELSE ret' = << >> /\ pc' = "r_take"
    /\ UNCHANGED << stack, c, SREG_I, progVars, rxPending, shifting, histTx, wroteSinceBegin,
                    ended, discarded, blocked >>
    /\ UNCHANGED << peeked, baudVars >>

\* read() fetching the byte without advancing the tail
ReadTake_NoAdvance ==
    /\ pc = "r_take"
    /\ ret' = << rx_buffer[rx_tail] >>
    /\ rx_tail' = rx_tail
    /\ rxPending' = Tail(rxPending)
    /\ pc' = "idle"
    /\ UNCHANGED << stack, c, SREG_I, written, txVars, rx_buffer, rx_head, RXCIF,
                    RXDATAL, ctlVars, shifting, histTx, wroteSinceBegin, ended, discarded,
                    blocked >>
    /\ peeked' = << >>
    /\ UNCHANGED baudVars

ReadTake ==
    /\ pc = "r_take"
    /\ ret' = << rx_buffer[rx_tail] >>
    /\ rx_tail' = RxNext(rx_tail)
    /\ rxPending' = Tail(rxPending)
    /\ pc' = "idle"
    /\ UNCHANGED << stack, c, SREG_I, written, txVars, rx_buffer, rx_head, RXCIF,
                    RXDATAL, ctlVars, shifting, histTx, wroteSinceBegin, ended, discarded,
                    blocked >>
    /\ peeked' = << >>
    /\ UNCHANGED baudVars

(***************************************************************************)
(* UartClass::availableForWrite.                                           *)
(***************************************************************************)
\* availableForWrite() without the slot kept free when head is behind tail
availableForWrite_OffByOne ==
    IF tx_head >= tx_tail
    THEN SERIAL_TX_BUFFER_SIZE - 1 - tx_head + tx_tail
    ELSE tx_tail - tx_head

\* head is read before tail outside any critical section; the caller is the
\* only writer of head, so the value read is still current when tail is read
availableForWrite ==
    IF tx_head >= tx_tail
    THEN SERIAL_TX_BUFFER_SIZE - 1 - tx_head + tx_tail
    ELSE tx_tail - tx_head - 1

AvailableForWrite ==
    /\ pc = "idle"
    /\ ret' = << availableForWrite >>
    /\ UNCHANGED << pc, stack, c, SREG_I, progVars, rxPending, shifting, histTx, wroteSinceBegin,
                    ended, discarded, blocked >>
    /\ UNCHANGED << peeked, baudVars >>

(***************************************************************************)
(* The caller's context: interrupts globally suppressed (the caller is     *)
(* itself an interrupt handler or has masked interrupts) or enabled.       *)
(***************************************************************************)
Cli ==
    /\ pc = "idle"
    /\ SREG_I
    /\ SREG_I' = FALSE
    /\ UNCHANGED << pc, stack, c, ret, progVars, rxPending, shifting, histTx, wroteSinceBegin,
                    ended, discarded, blocked >>
    /\ UNCHANGED << peeked, baudVars >>

Sei ==
    /\ pc = "idle"
    /\ ~SREG_I
    /\ SREG_I' = TRUE
    /\ UNCHANGED << pc, stack, c, ret, progVars, rxPending, shifting, histTx, wroteSinceBegin,
                    ended, discarded, blocked >>
    /\ UNCHANGED << peeked, baudVars >>

(***************************************************************************)
(* The USART hardware.                                                     *)
(***************************************************************************)
\* the transmitter moves the data register into the idle shift register; it
\* sends whatever it was given, whether or not TXEN is still set
HwLoadShift ==
    /\ ~DREIF
    /\ ~shifting
    /\ shifting' = TRUE
    /\ DREIF' = TRUE
    /\ UNCHANGED << pc, stack, c, ret, SREG_I, written, tx_buffer, tx_head, tx_tail,
                    DREIE, TXCIF, rxVars, ctlVars, histTx, wroteSinceBegin,
                    ended, discarded, blocked >>
    /\ UNCHANGED << peeked, baudVars >>

\* the frame in the shift register has left the wire; transmit complete is
\* raised when no further byte waits in the data register
HwTxDone ==
    /\ shifting
    /\ shifting' = FALSE
    /\ TXCIF' = IF DREIF THEN TRUE ELSE TXCIF
    /\ UNCHANGED << pc, stack, c, ret, SREG_I, written, tx_buffer, tx_head, tx_tail,
                    DREIE, DREIF, rxVars, ctlVars, histTx, wroteSinceBegin,
                    ended, discarded, blocked >>
    /\ UNCHANGED << peeked, baudVars >>

\* the enabled receiver completes a frame carrying byte b
receive(b) ==
    /\ RXEN
    /\ ~RXCIF
    /\ RXDATAL' = b
    /\ RXCIF' = TRUE
    /\ UNCHANGED << pc, stack, c, ret, SREG_I, written, txVars, rx_buffer, rx_head,
                    rx_tail, rxPending, ctlVars, shifting, histTx, wroteSinceBegin, ended, discarded,
                    blocked >>
    /\ UNCHANGED << peeked, baudVars >>

\* reception of the bytes whose order is observed
HwReceive == \E b \in RxBytes : receive(b)

\* reception where the value received does not matter
HwReceiveAny == \E b \in AnyByte : receive(b)

(***************************************************************************)
(* Specifications.                                                         *)
(***************************************************************************)
Mainline ==
    \/ WriteTry \/ WritePoll
    \/ FlushCheck \/ FlushTestDreie \/ FlushTestTxcif \/ FlushPoll
    \/ EndFlush \/ EndAtomic
    \/ BeginCheck \/ BeginClear \/ BeginAtomic
    \/ PeekTake \/ ReadTake

\* The whole driver: every operation, both interrupt vectors and the hardware,
\* with the values transferred abstracted to one byte.
Next ==
    \/ CallWriteAny \/ WriteTry \/ WritePoll
    \/ CallFlush \/ FlushCheck \/ FlushTestDreie \/ FlushTestTxcif \/ FlushPoll
    \/ CallEnd \/ EndFlush \/ EndAtomic
    \/ CallBegin \/ BeginCheck \/ BeginClear \/ BeginAtomic
    \/ Available \/ Peek \/ PeekTake \/ Read \/ ReadTake \/ AvailableForWrite
    \/ Cli \/ Sei
    \/ ISR_DRE \/ ISR_RXC
    \/ HwLoadShift \/ HwTxDone \/ HwReceiveAny

Spec == Init /\ [][Next]_vars

\* The transmit side: the line delivers nothing, so the RX buffer stays empty.
NextTx ==
    \/ CallWrite \/ WriteTry \/ WritePoll
    \/ CallFlush \/ FlushCheck \/ FlushTestDreie \/ FlushTestTxcif \/ FlushPoll
    \/ CallEnd \/ EndFlush \/ EndAtomic
    \/ CallBegin \/ BeginCheck \/ BeginClear \/ BeginAtomic
    \/ AvailableForWrite
    \/ Cli \/ Sei
    \/ ISR_DRE
    \/ HwLoadShift \/ HwTxDone

SpecTx == Init /\ [][NextTx]_vars

\* The receive side: nothing is ever written, so of flush() and begin() only
\* the steps of a port that has not written can be taken.
NextRx ==
    \/ CallEnd \/ EndFlush \/ FlushCheck \/ EndAtomic
    \/ CallBegin \/ BeginCheck \/ BeginAtomic
    \/ Available \/ Peek \/ PeekTake \/ Read \/ ReadTake
    \/ Cli \/ Sei
    \/ ISR_RXC
    \/ HwReceive

SpecRx == Init /\ [][NextRx]_vars

\* begin() alone, for every baud rate, clock and oscillator error of the
\* bounded sets; nothing is written, so begin() performs no implicit end().
NextBaud == CallBeginBaud \/ BeginCheck \/ BeginAtomic

SpecBaud == InitBaud /\ [][NextBaud]_vars

\* The transmit side with a caller that finishes the call it is in and a
\* transmitter that eventually shifts out what it was given.
SpecTxFair ==
    /\ SpecTx
    /\ WF_vars(Mainline)
    /\ WF_vars(HwLoadShift)
    /\ WF_vars(HwTxDone)



(***************************************************************************)
(* Properties.                                                             *)
(***************************************************************************)
InWrite == pc \in {"w_try", "w_poll"}
InFlush == pc \in {"f_chk", "f_dreie", "f_txcif", "f_poll"}

\* the transmitter holds nothing: no queued byte, the data register empty, the
\* shift register idle
TxIdle == tx_head = tx_tail /\ ~DREIE /\ DREIF /\ ~shifting

\* C1: the bytes loaded into the transmit data register are the bytes passed to
\* write(), in call order, each once: every load took the oldest byte not yet
\* loaded, and the bytes not yet loaded are exactly the TX buffer's contents,
\* followed by the byte of the write() in progress.
C1_TxFifoOrder ==
    /\ fifoOK
    /\ pending = IF InWrite THEN Append(TxContents, c) ELSE TxContents

\* C1 witness: the TX buffer is full of bytes that differ, a further write() is
\* spinning, and a byte is in the data register and one on the wire
C1_Witness ==
    /\ pc = "w_poll"
    /\ TxQueued = SERIAL_TX_BUFFER_SIZE - 1
    /\ TxContents[1] # TxContents[2]
    /\ ~DREIF /\ shifting

\* C2: every write() call returns, and returns 1, also with interrupts
\* globally suppressed.
C2_WriteReturns == InWrite ~> (pc = "idle" /\ ret = << 1 >>)

\* C2 witness: a write() spins on a full TX buffer with interrupts suppressed
C2_Witness == pc = "w_poll" /\ ~SREG_I /\ TxQueued = SERIAL_TX_BUFFER_SIZE - 1

\* the step in which write() returns
WriteReturns == InWrite /\ pc' = "idle"

\* C3 as stated: a write() that found the TX buffer full returns only after a byte
\* was popped, overwrites nothing while it waits, and returns with its byte
\* queued in the TX buffer.
C3_QueuedAfterBackpressure ==
    [][ /\ (WriteReturns /\ blocked) =>
            (popped /\ tx_head' = TxNext(tx_head) /\ TxContents' = Append(TxContents, c))
        /\ (pc = "w_try" /\ TxQueued = SERIAL_TX_BUFFER_SIZE - 1 /\ pc' # pc) =>
            (pc' = "w_poll" /\ UNCHANGED << tx_buffer, tx_head, tx_tail >>)
      ]_vars

\* C3 amended: a write() that found the TX buffer full returns only after a byte
\* was popped, overwrites nothing while it waits, and returns with its byte
\* accepted behind every byte queued before it: appended to the TX buffer, or,
\* when the buffer drained completely in the meantime, stored into the data
\* register.
C3_AcceptedAfterBackpressure ==
    [][ /\ (WriteReturns /\ blocked) =>
            /\ popped
            /\ \/ (tx_head' = TxNext(tx_head) /\ TxContents' = Append(TxContents, c))
               \/ (tx_head = tx_tail /\ ~DREIE /\ DREIF /\ ~DREIF'
                   /\ pending = << c >> /\ UNCHANGED << tx_buffer, tx_head, tx_tail >>)
        /\ (pc = "w_try" /\ TxQueued = SERIAL_TX_BUFFER_SIZE - 1 /\ pc' # pc) =>
            (pc' = "w_poll" /\ UNCHANGED << tx_buffer, tx_head, tx_tail >>)
      ]_vars

\* C3 witness: a write() that found the TX buffer full is about to queue its
\* byte after one byte was popped
C3_Witness ==
    /\ pc = "w_try" /\ blocked /\ popped
    /\ TxQueued = SERIAL_TX_BUFFER_SIZE - 2

\* the step in which flush() returns to its caller
FlushReturns == InFlush /\ pc' # pc /\ ~InFlush'

\* C4: when flush() returns after a write() since the last begin(), the TX
\* buffer is empty, the data register empty interrupt is disabled, transmit
\* complete is set, and nothing accepted by write() is left in the transmitter.
C4_FlushPostcondition ==
    [][ (FlushReturns /\ wroteSinceBegin) =>
            /\ tx_head = tx_tail
            /\ ~DREIE
            /\ TXCIF
            /\ DREIF /\ ~shifting
            /\ pending = << >>
            /\ UNCHANGED << tx_head, tx_tail, DREIE, TXCIF, DREIF, shifting, pending >>
      ]_vars

\* C4 witness: flush() has waited for queued bytes and sees transmit complete
C4_Witness ==
    /\ pc = "f_txcif" /\ stack = << >> /\ TXCIF /\ wroteSinceBegin
    /\ tx_head # 0 /\ tx_head = tx_tail

\* C5: every flush() call returns, also with interrupts globally suppressed,
\* and transmit complete is never left cleared with nothing left to transmit.
C5_FlushReturns ==
    /\ InFlush ~> ~InFlush
    /\ []((written /\ TxIdle) => TXCIF)

\* C5 witness: flush() spins with interrupts suppressed and bytes still queued
C5_Witness == pc = "f_poll" /\ ~SREG_I /\ tx_head # tx_tail /\ ~DREIF

\* C6: a flush() called when write() was not called since the last begin()
\* returns at once: it does not enter the wait loop and changes no buffer
\* index, register or flag.
C6_FlushNoop ==
    [][ (pc = "f_chk" /\ ~wroteSinceBegin /\ pc' # pc) =>
            /\ pc' = (IF stack = << >> THEN "idle" ELSE Head(stack))
            /\ UNCHANGED progVars
      ]_vars

\* C6 witness: flush() is called on a begun port that has received but not written
C6_Witness ==
    /\ pc = "f_chk" /\ stack = << >> /\ ~wroteSinceBegin
    /\ RXEN /\ rx_head # rx_tail

\* the step in which begin() programs and enables the USART, then returns
BeginReturns == pc = "b_atomic" /\ pc' = "idle"

\* C7: after begin() returns both ring buffers are empty.
C7_BeginEmptiesBuffers ==
    [][ BeginReturns => (rx_head' = rx_tail' /\ tx_head' = tx_tail') ]_vars

\* C8: a begin() on a port that is already enabled leaves it as a single
\* begin() does: receiver, transmitter and receive complete interrupt enabled,
\* data register empty interrupt disabled, both buffers empty, _written false.
C8_BeginIdempotent ==
    [][ (BeginReturns /\ RXEN /\ TXEN) =>
            /\ RXEN' /\ TXEN' /\ RXCIE'
            /\ ~DREIE'
            /\ rx_head' = rx_tail'
            /\ tx_head' = tx_tail'
            /\ ~written'
      ]_vars

\* C9: when begin() programs the USART nothing is being transmitted (the TX
\* buffer is empty, the data register empty interrupt disabled, the data and
\* shift registers empty); and _written is true whenever the transmitter
\* holds a byte and whenever a write() returns, whichever path took the byte.
C9_BeginNotLive ==
    /\ [](pc = "b_atomic" => (TxIdle /\ pending = << >>))
    /\ [](~TxIdle => written)
    /\ [][WriteReturns => written']_vars

\* C9 witness: begin() on a port written to since the last begin() is about
\* to program the USART, after the implicit end()
C9_Witness == pc = "b_atomic" /\ wroteSinceBegin /\ ended

\* the value read() returns in the current state
read_value == IF rx_head = rx_tail THEN -1 ELSE rx_buffer[rx_tail]

\* C10: from the return of end() until begin() enables the port, available()
\* is 0 and read() and peek() return -1, and the receiver delivers nothing.
C10_EmptyAfterEnd ==
    ended => /\ available = 0
             /\ peek = -1
             /\ read_value = -1
             /\ ~RXCIE /\ ~RXCIF

\* C10 witness: an end() that discarded unread bytes has returned
C10_Witness == ended /\ discarded /\ pc = "idle"

\* the step in which end() disables the USART
EndDisables == pc = "e_atomic" /\ pc' # pc

\* C11: when end() clears the enable bits every byte accepted by write() has
\* been loaded into the data register and has left the wire, with transmit
\* complete set if anything was written; end() leaves receiver, transmitter,
\* receive complete and data register empty interrupts disabled and _written
\* false.
C11_EndDrains ==
    [][ EndDisables =>
            /\ pending = << >>
            /\ TxIdle
            /\ (written \/ wroteSinceBegin) => TXCIF
            /\ ~RXEN' /\ ~TXEN' /\ ~RXCIE' /\ ~DREIE' /\ ~written'
      ]_vars

\* C11 witness: end() has flushed bytes that were queued and is about to
\* disable the USART
C11_Witness ==
    /\ pc = "e_atomic" /\ stack = << >> /\ written /\ TXCIF
    /\ tx_head # 0 /\ RXEN /\ TXEN

\* C12: while no write() is in progress, availableForWrite() plus the number
\* of bytes queued (the bytes accepted and not yet loaded, which is the count
\* the indices give) is N - 1, and the result lies in 0 .. N - 1.
C12_AvailableForWrite ==
    /\ availableForWrite \in 0 .. SERIAL_TX_BUFFER_SIZE - 1
    /\ ~InWrite =>
          /\ availableForWrite + Len(pending) = SERIAL_TX_BUFFER_SIZE - 1
          /\ availableForWrite + TxQueued = SERIAL_TX_BUFFER_SIZE - 1

\* C12 witness: availableForWrite() returned 0 on a full TX buffer whose head
\* has wrapped behind its tail
C12_Witness ==
    /\ pc = "idle" /\ ret = << 0 >>
    /\ tx_head < tx_tail /\ Len(pending) = SERIAL_TX_BUFFER_SIZE - 1

(***************************************************************************)
(* C13: whatever the interleaving of the receive interrupt with read(),    *)
(* peek() and available(), read() returns the bytes the interrupt handler  *)
(* stored, in the order of their arrival and each once; it returns -1      *)
(* exactly when no stored byte is unread at the moment it tests the        *)
(* indices; and available() is the number of stored, unread bytes.         *)
(***************************************************************************)
ReadTests == Read /\ pc' = "r_take"
ReadEmpty == Read /\ pc' = "idle"
ReadTakes == pc = "r_take" /\ pc' = "idle"

C13_RxFifoOrder ==
    /\ [](available = Len(rxPending))
    /\ [][ ReadTakes =>
               /\ rxPending # << >>
               /\ ret' = << Head(rxPending) >>
               /\ rxPending' = Tail(rxPending)
               /\ RxContents' = rxPending'
         ]_vars
    /\ [][ ReadTests => rxPending # << >> ]_vars
    /\ [][ ReadEmpty => rxPending = << >> ]_vars

\* a byte arrived between read()'s test and its fetch, behind two unread
\* bytes of different values, and the buffer has wrapped
C13_Witness ==
    /\ pc = "r_take"
    /\ Len(rxPending) = SERIAL_RX_BUFFER_SIZE - 1
    /\ rxPending[1] # rxPending[2]
    /\ rx_head < rx_tail
    /\ RXCIF
(***************************************************************************)
(* C14: when the receive complete handler runs while the RX buffer holds   *)
(* N-1 unread bytes, the incoming byte is dropped: head, tail and every    *)
(* slot of the buffer are unchanged, the unread bytes are the same, and    *)
(* nothing but the receive flag and the data register changes.             *)
(***************************************************************************)
RxFull == available = SERIAL_RX_BUFFER_SIZE - 1

C14_RxOverflowDrops ==
    [][ (ISR_RXC /\ RxFull) =>
            /\ UNCHANGED << rx_head, rx_tail, rx_buffer, rxPending >>
            /\ RxContents' = RxContents
            /\ UNCHANGED << pc, stack, c, ret, SREG_I, written, txVars, ctlVars,
                            ended, discarded >>
      ]_vars

\* the handler is about to run on a full buffer, with an incoming byte
\* that differs from the newest unread one
C14_Witness ==
    /\ SREG_I /\ RXCIE /\ RXCIF
    /\ RxFull
    /\ Len(rxPending) = SERIAL_RX_BUFFER_SIZE - 1
    /\ RXDATAL # rxPending[Len(rxPending)]
(***************************************************************************)
(* C15: peek() changes neither RX index nor any slot of the RX buffer; it  *)
(* returns -1 exactly when the buffer is empty as it tests the indices;    *)
(* and once it has returned a byte, the next read() returns that byte,     *)
(* however many bytes the receive handler stores in between, unless end()  *)
(* came first.                                                             *)
(***************************************************************************)
C15_PeekDoesNotConsume ==
    /\ [][ (Peek \/ PeekTake) => UNCHANGED << rx_head, rx_tail, rx_buffer, rxPending >> ]_vars
    /\ [][ Peek => ((ret' = << -1 >>) <=> (rx_head = rx_tail)) ]_vars
    /\ [][ PeekTake => (rx_head # rx_tail /\ ret' = << Head(rxPending) >>) ]_vars
    /\ [][ (Read /\ peeked # << >>) => pc' = "r_take" ]_vars
    /\ [][ (ReadTake /\ peeked # << >>) => ret' = peeked ]_vars

\* read() is about to fetch the byte a peek() returned, after the handler
\* stored a different byte behind it
C15_Witness ==
    /\ pc = "r_take"
    /\ peeked # << >>
    /\ Len(rxPending) = 2
    /\ rxPending[2] # peeked[1]
(***************************************************************************)
(* C16: in every reachable state the indices of both ring buffers are in   *)
(* [0, N) and neither buffer holds more than N-1 live bytes; a push on a   *)
(* full buffer (write()'s atomic block for TX, the receive handler for RX) *)
(* changes neither index nor any slot.                                     *)
(***************************************************************************)
TxFull == TxQueued = SERIAL_TX_BUFFER_SIZE - 1

RingInvariant ==
    /\ tx_head \in 0 .. SERIAL_TX_BUFFER_SIZE - 1
    /\ tx_tail \in 0 .. SERIAL_TX_BUFFER_SIZE - 1
    /\ rx_head \in 0 .. SERIAL_RX_BUFFER_SIZE - 1
    /\ rx_tail \in 0 .. SERIAL_RX_BUFFER_SIZE - 1
    /\ TxQueued <= SERIAL_TX_BUFFER_SIZE - 1
    /\ available <= SERIAL_RX_BUFFER_SIZE - 1
    /\ Len(rxPending) = available
    /\ Len(pending) = TxQueued + (IF InWrite THEN 1 ELSE 0)

C16_RingInvariants ==
    /\ []RingInvariant
    /\ [][ (WriteTry /\ TxFull) => UNCHANGED << tx_head, tx_tail, tx_buffer >> ]_vars
    /\ [][ (ISR_RXC /\ RxFull) => UNCHANGED << rx_head, rx_tail, rx_buffer >> ]_vars

\* both buffers full for the first time, each with its free slot never yet
\* stored to, a write() in its atomic block and the receive handler due
C16_Witness ==
    /\ pc = "w_try"
    /\ TxFull /\ tx_buffer[tx_head] = 0
    /\ RxFull /\ rx_buffer[rx_head] = 0
    /\ SREG_I /\ RXCIE /\ RXCIF
(***************************************************************************)
(* C17: each index has one writer in every operation, begin() and end()    *)
(* included: RX head is changed only by the receive handler, RX tail only  *)
(* by read(), TX head only by write(), TX tail only by the transmit        *)
(* handler (run by its interrupt or by a poll).                            *)
(***************************************************************************)
TxHandlerRuns == ISR_DRE \/ WritePoll \/ FlushPoll

C17_SingleWriter ==
    [][ /\ rx_head' # rx_head => ISR_RXC
        /\ rx_tail' # rx_tail => ReadTake
        /\ tx_head' # tx_head => WriteTry
        /\ tx_tail' # tx_tail => TxHandlerRuns
      ]_vars

\* C17 as the code has it: the same, except that end()'s atomic block, run
\* by the caller, sets RX head to RX tail; it does so in the step that
\* disables the receiver and the receive complete interrupt.
C17_SingleWriterButEnd ==
    [][ /\ rx_head' # rx_head =>
              \/ ISR_RXC
              \/ EndAtomic /\ rx_head' = rx_tail /\ ~RXCIE' /\ ~RXEN'
        /\ rx_tail' # rx_tail => ReadTake
        /\ tx_head' # tx_head => WriteTry
        /\ tx_tail' # tx_tail => TxHandlerRuns
      ]_vars

\* end() is about to discard unread bytes by writing RX head
C17_Witness ==
    /\ pc = "e_atomic"
    /\ rx_head # rx_tail
    /\ RXCIE
(***************************************************************************)
(* C18: in every state outside a critical section the data register empty *)
(* interrupt is enabled exactly when the TX buffer is non-empty; it is set *)
(* in particular as write() leaves its atomic block for the polling path.  *)
(***************************************************************************)
C18_DreieIffQueued ==
    /\ [](DREIE <=> (tx_head # tx_tail))
    /\ [][ (WriteTry /\ pc' = "w_poll") => (DREIE' /\ tx_head' # tx_tail') ]_vars

\* write() has left its atomic block on a full buffer and is about to poll,
\* the data register still occupied
C18_Witness ==
    /\ pc = "w_poll"
    /\ TxFull
    /\ DREIE
    /\ ~DREIF
(***************************************************************************)
(* C19: the transmit handler never runs on an empty TX buffer, whether its *)
(* interrupt or a poll of write() or flush() runs it and however the       *)
(* interrupt interleaves with the spinning caller; a poll transfers        *)
(* nothing unless, inside its atomic block, the data register empty        *)
(* interrupt is enabled and the data register empty flag is set.           *)
(***************************************************************************)
PollRuns == WritePoll \/ FlushPoll

C19_NoDoubleDrain ==
    /\ [][ ISR_DRE => (tx_head # tx_tail /\ pending # << >>) ]_vars
    /\ [][ (PollRuns /\ DREIE /\ DREIF) =>
               /\ tx_head # tx_tail /\ pending # << >>
               /\ tx_tail' = TxNext(tx_tail)
               /\ pending' = Tail(pending)
         ]_vars
    /\ [][ (PollRuns /\ ~(DREIE /\ DREIF)) =>
               UNCHANGED << tx_buffer, tx_head, tx_tail, DREIE, DREIF, TXCIF, pending >>
         ]_vars
    /\ [][ tx_tail' # tx_tail => (ISR_DRE \/ PollRuns) ]_vars

\* write() is about to poll after the interrupt has emptied the buffer it
\* found full, and the data register is empty again
C19_Witness ==
    /\ pc = "w_poll"
    /\ blocked /\ popped
    /\ tx_head = tx_tail
    /\ ~DREIE
    /\ DREIF
(***************************************************************************)
(* C20: for every baud rate of the bounded set, begin() stores into the    *)
(* 16-bit baud register the divisor round(8 * F_CPU / baud / 2) plus the   *)
(* correction divisor * error / 1024: the register holds the value         *)
(* computed, not its low 16 bits, and no intermediate value leaves the     *)
(* 32-bit range.                                                           *)
(***************************************************************************)
InInt32(x) == x >= -2147483647 - 1 /\ x <= 2147483647

\* d is the integer nearest to 8 * F_CPU / baud / 2
Rounded(d) ==
    /\ 2 * baud * d - 8 * F_CPU <= baud
    /\ 8 * F_CPU - 2 * baud * d < baud

C20_BaudRegisterExact ==
    [][ BeginAtomic =>
            /\ Rounded(baud_divisor)
            /\ InInt32(8 * F_CPU) /\ InInt32(baud_divisor * OSC16ERR5V)
            /\ InInt32(baud_setting)
            /\ BAUD' = baud_setting
      ]_vars
====
